---- MODULE Spec2Model ----
(***************************************************************************)
(* Ingestion pipeline of hackathon-sniffer: the IngestionScheduler         *)
(* (scheduler.ts), the ingestion HackathonModel (models/hackathon.ts),     *)
(* the DeduplicationService (utils/deduplication.ts), the robots.txt       *)
(* check of HttpClient/BaseAdapter and the DevpostAdapter's extraction     *)
(* paths.                                                                  *)
(*                                                                         *)
(* Encoding of JavaScript values                                           *)
(*   - a string that the code indexes (title, location, robots paths and   *)
(*     agents) is a sequence of one-character strings;                     *)
(*   - an optional field is [k, v]: k = "undefined" (key absent or         *)
(*     undefined), "null" (SQL NULL) or "val" (v is the value);            *)
(*   - is_online is "true"/"false" for a JS boolean and "1"/"0" for the    *)
(*     INTEGER column SQLite returns, so that === distinguishes them;      *)
(*   - ISO timestamps are whole days (integers); their string order is     *)
(*     their numeric order;                                                *)
(*   - id = 0 stands for "the object has no id key";                       *)
(*   - a URL is [www, host, path, slash, params]: an optional "www."       *)
(*     prefix, the host, a non-root path without its trailing slash, a     *)
(*     flag for a trailing slash, and the set of query parameter names.    *)
(*   - created_at / updated_at are not modelled.                           *)
(***************************************************************************)
EXTENDS Integers, Sequences, FiniteSets, TLC

(* ---------------------------- bounds ----------------------------------- *)
MaxRuns == 2
MaxBatch == 2
MaxNow == 1
MaxRobotsLines == 3
MaxJobs == 4
MaxRetriesOption == 2
MaxConcurrency == 3
MaxClock == 3000
MaxList == 3
MaxGroup == 2
MaxYield == 2

(* ------------------------- JS value helpers ---------------------------- *)
Undefined(d) == [k |-> "undefined", v |-> d]
Null(d) == [k |-> "null", v |-> d]
Val(x) == [k |-> "val", v |-> x]

\* JS truthiness of an optional string (the empty string is falsy)
TruthyStr(o) == o.k = "val" /\ o.v # ""
\* JS truthiness of an optional URL or timestamp (never empty when present)
Truthy(o) == o.k = "val"
\* JS truthiness of an is_online value
TruthyFlag(b) == b \in {"true", "1"}

\* x || null, as HackathonModel.create writes optional columns
OrNullStr(o) == IF TruthyStr(o) THEN o ELSE Null(o.v)
OrNull(o) == IF Truthy(o) THEN o ELSE Null(o.v)

Max(a, b) == IF a >= b THEN a ELSE b
Min(a, b) == IF a <= b THEN a ELSE b
Abs(a) == IF a >= 0 THEN a ELSE 0 - a

\* String.prototype.toLowerCase on the characters the model uses
LowerChar(c) ==
  CASE c = "H" -> "h"
    [] c = "N" -> "n"
    [] c = "Y" -> "y"
    [] c = "J" -> "j"
    [] c = "S" -> "s"
    [] c = "B" -> "b"
    [] c = "A" -> "a"
    [] c = "I" -> "i"
    [] c = "O" -> "o"
    [] c = "V" -> "v"
    [] OTHER -> c
toLowerCase(s) == [i \in 1..Len(s) |-> LowerChar(s[i])]

RECURSIVE trimStart(_)
trimStart(s) == IF s # <<>> /\ Head(s) = " " THEN trimStart(Tail(s)) ELSE s
RECURSIVE trimEnd(_)
trimEnd(s) ==
  IF s # <<>> /\ s[Len(s)] = " " THEN trimEnd(SubSeq(s, 1, Len(s) - 1)) ELSE s
trim(s) == trimEnd(trimStart(s))

\* String.prototype.startsWith
startsWith(s, p) == Len(p) <= Len(s) /\ SubSeq(s, 1, Len(p)) = p
\* String.prototype.includes
includes(s, p) ==
  \E i \in 1..(Len(s) + 1) :
    i + Len(p) - 1 <= Len(s) /\ SubSeq(s, i, i + Len(p) - 1) = p

(* ----------------------- DeduplicationService -------------------------- *)
trackingParams ==
  {"utm_source", "utm_medium", "utm_campaign", "utm_term", "utm_content",
   "fbclid", "gclid", "ref", "source", "campaign"}

\* canonicalizeUrl: drop the tracking parameters, the www. prefix and the
\* trailing slash
canonicalizeUrl(u) ==
  [u EXCEPT !.params = @ \ trackingParams, !.www = FALSE, !.slash = FALSE]

\* matrix[j][i] from its left, upper and upper-left neighbours
cell(left, up, diagonal, indicator) ==
  Min(Min(left + 1, up + 1), diagonal + indicator)

\* one row of the Levenshtein matrix: matrix[j][0..Len(s1)] from matrix[j-1];
\* cur holds matrix[j][0..i-1]
RECURSIVE levRow(_, _, _, _, _)
levRow(s1, c2, prev, cur, i) ==
  IF Len(cur) > Len(s1) THEN cur
  ELSE levRow(s1, c2, prev,
              Append(cur, cell(cur[i], prev[i + 1], prev[i],
                               IF s1[i] = c2 THEN 0 ELSE 1)),
              i + 1)

\* the rows matrix[0..Len(s2)]; matrix holds the rows 0..j-1
RECURSIVE levRows(_, _, _, _)
levRows(s1, s2, matrix, j) ==
  IF Len(matrix) > Len(s2) THEN matrix
  ELSE levRows(s1, s2, Append(matrix, levRow(s1, s2[j], matrix[j], <<j>>, 1)),
               j + 1)

\* matrix[s2.length][s1.length]
levenshtein(s1, s2) ==
  levRows(s1, s2, <<[i \in 1..(Len(s1) + 1) |-> i - 1]>>, 1)
    [Len(s2) + 1][Len(s1) + 1]

\* faulty variant: the distance is set against the first string's length
similarityByFirst(s1, s2) ==
  IF s1 = s2 THEN <<1, 1>>
  ELSE IF Len(s1) = 0 \/ Len(s2) = 0 THEN <<0, 1>>
  ELSE <<Len(s1) - levenshtein(s1, s2), Len(s1)>>
\* stringSimilarity after s1 and s2 have been lower-cased and trimmed, as
\* the exact fraction <<numerator, denominator>>
similarityOfTrimmed(s1, s2) ==
  IF s1 = s2 THEN <<1, 1>>
  ELSE IF Len(s1) = 0 \/ Len(s2) = 0 THEN <<0, 1>>
  ELSE <<Max(Len(s1), Len(s2)) - levenshtein(s1, s2), Max(Len(s1), Len(s2))>>

\* stringSimilarity(str1, str2)
stringSimilarity(str1, str2) ==
  similarityOfTrimmed(trim(toLowerCase(str1)), trim(toLowerCase(str2)))

\* calculateSimilarity, as the exact fraction <<numerator, denominator>> of
\* 0.4*title + (0.3 | 0.15 | 0) + 0.2*location + (0.1 | 0); the divisor
\* `factors` is 0.4 + 0.3 + 0.2 + 0.1 = 1
\* score / factors for title and location similarities t and l (fractions)
\* and the date and online points, in hundredths
weightedScore(t, l, date, online) ==
  <<40 * t[1] * l[2] + 20 * l[1] * t[2] + (date + online) * t[2] * l[2],
    100 * t[2] * l[2]>>

calculateSimilarity(h1, h2) ==
  weightedScore(stringSimilarity(h1.title, h2.title),
                stringSimilarity(h1.location, h2.location),
                IF h1.start_date = h2.start_date THEN 30
                ELSE IF Abs(h1.start_date - h2.start_date) <= 3 THEN 15
                ELSE 0,
                IF h1.is_online = h2.is_online THEN 10 ELSE 0)

\* the default threshold 0.85, in hundredths
DefaultThreshold == 85

\* isDuplicate(h1, h2, threshold): similarity >= threshold / 100
\* the fraction s is >= threshold / 100
atLeast(s, threshold) == s[1] * 100 >= threshold * s[2]
isDuplicate(h1, h2, threshold) == atLeast(calculateSimilarity(h1, h2), threshold)

\* faulty variant: a record already in a group may join another one
joinsAgain(hs, threshold, i, j, processed) ==
  isDuplicate(hs[i], hs[j], threshold)
\* if (processed.has(j)) continue; if (this.isDuplicate(hackathons[i],
\* hackathons[j], threshold)) ...
joins(hs, threshold, i, j, processed) ==
  j \notin processed /\ isDuplicate(hs[i], hs[j], threshold)

\* inner loop of findDuplicates: the j > i not yet processed that duplicate i
RECURSIVE dupScan(_, _, _, _, _, _)
dupScan(hs, threshold, i, j, processed, acc) ==
  IF j > Len(hs) THEN <<acc, processed>>
  ELSE IF joins(hs, threshold, i, j, processed)
       THEN dupScan(hs, threshold, i, j + 1, processed \cup {j}, Append(acc, j))
       ELSE dupScan(hs, threshold, i, j + 1, processed, acc)

\* findDuplicates: groups.push({original, duplicates}) when duplicates, the
\* elements at the indices `found`, is not empty
withGroup(groups, hs, i, found) ==
  IF Len(found) > 0
  THEN Append(groups, [original |-> hs[i],
                       duplicates |-> [n \in 1..Len(found) |-> hs[found[n]]]])
  ELSE groups

\* outer loop of findDuplicates; afterScan is the rest of an iteration once
\* the inner loop has returned sc = <<indices found, processed>>
RECURSIVE dupGroups(_, _, _, _, _)
afterScan(hs, threshold, i, groups, sc) ==
  dupGroups(hs, threshold, i + 1, sc[2] \cup {i}, withGroup(groups, hs, i, sc[1]))
dupGroups(hs, threshold, i, processed, groups) ==
  IF i > Len(hs) THEN groups
  ELSE IF i \in processed THEN dupGroups(hs, threshold, i + 1, processed, groups)
  ELSE afterScan(hs, threshold, i, groups,
                 dupScan(hs, threshold, i, i + 1, processed, <<>>))

\* findDuplicates(hackathons, threshold): greedy single pass
findDuplicates(hackathons, threshold) ==
  dupGroups(hackathons, threshold, 1, {}, <<>>)

\* sourcePriority.indexOf(source): 0-based, -1 when absent
sourcePriority == <<"mlh", "devpost", "eventbrite">>
priorityIndex(source) ==
  IF \E i \in 1..Len(sourcePriority) : sourcePriority[i] = source
  THEN (CHOOSE i \in 1..Len(sourcePriority) : sourcePriority[i] = source) - 1
  ELSE 0 - 1

\* faulty variant: a duplicate of equal priority replaces the base
outranksOrTies(duplicatePriority, originalPriority) ==
  duplicatePriority <= originalPriority /\ duplicatePriority # 0 - 1
\* duplicatePriority < originalPriority && duplicatePriority !== -1
outranks(duplicatePriority, originalPriority) ==
  duplicatePriority < originalPriority /\ duplicatePriority # 0 - 1

\* the loop of mergeDuplicates that chooses `best`
RECURSIVE pickBest(_, _, _)
pickBest(best, duplicates, n) ==
  IF n > Len(duplicates) THEN best
  ELSE IF outranks(priorityIndex(duplicates[n].source), priorityIndex(best.source))
  THEN pickBest(duplicates[n], duplicates, n + 1)
  ELSE pickBest(best, duplicates, n + 1)

\* Array.prototype.find: index of the first element satisfying P, 0 if none
FirstIndex(seq, P(_)) ==
  IF \E i \in 1..Len(seq) : P(seq[i])
  THEN CHOOSE i \in 1..Len(seq) : P(seq[i]) /\ \A k \in 1..(i - 1) : ~P(seq[k])
  ELSE 0

\* mergeDuplicates(original, duplicates)
mergeDuplicates(original, duplicates) ==
  LET best == pickBest(original, duplicates, 1)
      allEvents == <<original>> \o duplicates
      bestLen == IF TruthyStr(best.description) THEN Len(best.description.v) ELSE 0
      Longer(e) == TruthyStr(e.description) /\ Len(e.description.v) > bestLen
      iDesc == FirstIndex(allEvents, Longer)
      deadlines == {allEvents[i].registration_deadline.v :
                      i \in {n \in 1..Len(allEvents) :
                               Truthy(allEvents[n].registration_deadline)}}
      HasReg(e) == Truthy(e.registration_url)
      iReg == FirstIndex(allEvents, HasReg)
      HasWeb(e) == Truthy(e.website_url)
      iWeb == FirstIndex(allEvents, HasWeb)
  IN [best EXCEPT
        !.description = IF iDesc # 0 THEN allEvents[iDesc].description ELSE @,
        !.registration_deadline =
            IF deadlines # {}
            THEN Val(CHOOSE d \in deadlines : \A o \in deadlines : d <= o)
            ELSE @,
        !.registration_url = IF iReg # 0 THEN allEvents[iReg].registration_url ELSE @,
        !.website_url =
            IF Truthy(@) THEN @
            ELSE IF iWeb # 0 THEN allEvents[iWeb].website_url
            ELSE Undefined(@.v)]

(* ------------------ HackathonModel (ingestion worker) ------------------ *)
\* The table is a sequence of rows in rowid (insertion) order.

\* create(data): INSERT with a fresh id; returns the new table
create(table, id, data) ==
  Append(table,
         [id |-> id,
          title |-> data.title,
          description |-> OrNullStr(data.description),
          start_date |-> data.start_date,
          end_date |-> data.end_date,
          registration_deadline |-> OrNull(data.registration_deadline),
          location |-> data.location,
          is_online |-> IF TruthyFlag(data.is_online) THEN "1" ELSE "0",
          website_url |-> OrNull(data.website_url),
          registration_url |-> OrNull(data.registration_url),
          source |-> data.source])

\* WHERE website_url = ? OR registration_url = ? (NULL equals nothing)
urlMatches(row, url) ==
  \/ row.website_url = Val(url)
  \/ row.registration_url = Val(url)

\* faulty variant: the lookup compares website_url alone
findByUrlWebsiteOnly(table, url) ==
  LET Hit(row) == row.website_url = Val(url) IN FirstIndex(table, Hit)

\* findByUrl(url): index of the first matching row, 0 for null
findByUrl(table, url) ==
  LET Hit(row) == urlMatches(row, url) IN FirstIndex(table, Hit)

\* index of the row with the given id, 0 if there is none
rowOfId(table, id) ==
  LET Is(row) == row.id = id IN FirstIndex(table, Is)

\* faulty variant: hackathons.id carries no PRIMARY KEY constraint
primaryKeyUnchecked(table, id, data) == FALSE

\* the PRIMARY KEY constraint on hackathons.id: SET id = <the id of another
\* row> fails with SQLITE_CONSTRAINT
primaryKeyViolated(table, id, data) ==
  /\ data.id # 0
  /\ data.id # id
  /\ rowOfId(table, id) # 0
  /\ rowOfId(table, data.id) # 0

\* one field of the dynamic UPDATE: keys whose value is undefined are left out
setField(old, new) == IF new.k = "undefined" THEN old ELSE new

\* update(id, data): the table after UPDATE ... WHERE id = ? (the statement
\* is assumed not to violate a constraint)
update(table, id, data) ==
  [n \in 1..Len(table) |->
     IF table[n].id # id THEN table[n]
     ELSE [id |-> IF data.id # 0 THEN data.id ELSE table[n].id,
           title |-> data.title,
           description |-> setField(table[n].description, data.description),
           start_date |-> data.start_date,
           end_date |-> data.end_date,
           registration_deadline |->
             setField(table[n].registration_deadline, data.registration_deadline),
           location |-> data.location,
           is_online |-> IF TruthyFlag(data.is_online) THEN "1" ELSE "0",
           website_url |-> setField(table[n].website_url, data.website_url),
           registration_url |->
             setField(table[n].registration_url, data.registration_url),
           source |-> data.source]]

\* result.changes > 0
updateChanged(table, id) == rowOfId(table, id) # 0

\* ORDER BY start_date ASC: insertion of a row into a sorted prefix, rows of
\* equal start_date staying in rowid order
RECURSIVE insertByStart(_, _)
insertByStart(sorted, row) ==
  IF sorted = <<>> THEN <<row>>
  ELSE IF Head(sorted).start_date <= row.start_date
       THEN <<Head(sorted)>> \o insertByStart(Tail(sorted), row)
       ELSE <<row>> \o sorted

RECURSIVE orderByStart(_)
orderByStart(rows) ==
  IF rows = <<>> THEN <<>>
  ELSE insertByStart(orderByStart(SubSeq(rows, 1, Len(rows) - 1)), rows[Len(rows)])

\* findUpcoming(limit): WHERE start_date > now ORDER BY start_date ASC LIMIT ?
findUpcoming(table, clock, limit) ==
  LET rows == orderByStart(SelectSeq(table, LAMBDA row : row.start_date > clock))
  IN SubSeq(rows, 1, Min(limit, Len(rows)))

\* the limit processEvent passes to findUpcoming
UpcomingLimit == 100

(* ------------------- HttpClient.isAllowedByRobotsTxt ------------------- *)
\* A robots.txt is a sequence of lines [f, v]: f is the lowercased directive
\* ("user-agent", "disallow", "allow") and v the text after the colon.  The
\* empty sequence stands for a falsy content: null (the fetch failed) or "".

robotsStart == [relevant |-> FALSE, disallowed |-> <<>>, allowed |-> <<>>]

\* one iteration of the loop over the lines
robotsLine(st, line, userAgent) ==
  IF line.f = "user-agent"
  THEN LET currentUserAgent == trim(toLowerCase(line.v))
       IN [relevant |-> \/ currentUserAgent = <<"*">>
                        \/ currentUserAgent = toLowerCase(userAgent)
                        \/ includes(toLowerCase(userAgent), currentUserAgent),
           disallowed |-> <<>>,
           allowed |-> <<>>]
  ELSE IF ~st.relevant THEN st
  ELSE IF line.f = "disallow"
       THEN IF trim(toLowerCase(line.v)) # <<>>
            THEN [st EXCEPT !.disallowed = Append(@, trim(toLowerCase(line.v)))]
            ELSE st
  ELSE IF line.f = "allow"
       THEN IF trim(toLowerCase(line.v)) # <<>>
            THEN [st EXCEPT !.allowed = Append(@, trim(toLowerCase(line.v)))]
            ELSE st
  ELSE st

RECURSIVE robotsScan(_, _, _, _)
robotsScan(st, lines, n, userAgent) ==
  IF n > Len(lines) THEN st
  ELSE robotsScan(robotsLine(st, lines[n], userAgent), lines, n + 1, userAgent)

isAllowedByRobotsTxt(robotsContent, userAgent, path) ==
  IF robotsContent = <<>> THEN TRUE
  ELSE LET st == robotsScan(robotsStart, robotsContent, 1, userAgent)
       IN IF \E i \in 1..Len(st.allowed) : startsWith(path, st.allowed[i]) THEN TRUE
          ELSE IF \E i \in 1..Len(st.disallowed) : startsWith(path, st.disallowed[i])
          THEN FALSE
          ELSE TRUE

(* ------------------------ BaseAdapter / Devpost ------------------------ *)
HackathonsPath == <<"/", "h", "a", "c", "k", "a", "t", "h", "o", "n", "s">>
\* DevpostAdapter.getScrapingPaths
getScrapingPaths == <<HackathonsPath>>
\* the agent name isRobotsTxtCompliant checks for
crawlerAgent ==
  <<"H", "a", "c", "k", "a", "t", "h", "o", "n",
    "S", "n", "i", "f", "f", "e", "r", "B", "o", "t">>

\* isRobotsTxtCompliant, given what checkRobotsTxt returned
isRobotsTxtCompliant(robotsContent) ==
  IF robotsContent = <<>> THEN TRUE
  ELSE \A i \in 1..Len(getScrapingPaths) :
         isAllowedByRobotsTxt(robotsContent, crawlerAgent, getScrapingPaths[i])

\* validateHackathon: TRUE when it returns, FALSE when it throws
validateHackathon(data) ==
  /\ data.title # <<>>
  /\ data.location # <<>>
  /\ data.source # ""
  /\ ~(data.start_date >= data.end_date)

\* The extraction paths of DevpostAdapter that build a NormalizedHackathon,
\* and whether each one calls validateHackathon before returning the record
Strategies ==
  {"parseHackathonElement", "parseModernHackathonElement", "parseJsonHackathon",
   "parseStructuredEvent", "parseModernDevpostPageLinks", "processHackathonLink"}
validates(strategy) ==
  strategy \in {"parseHackathonElement", "parseModernHackathonElement"}

\* what scrape() returns when `strategy` extracts the listing `items`: an
\* item that fails validation is logged and skipped
scrape(strategy, items) ==
  IF validates(strategy) THEN SelectSeq(items, validateHackathon) ELSE items

(* --------------------------- the upstream ------------------------------ *)
DevpostUrl(path) ==
  [www |-> FALSE, host |-> "devpost.com", path |-> path, slash |-> FALSE, params |-> {}]
NoUrl == DevpostUrl("")

Hack == <<"H", "a", "c", "k">>
hack == <<"h", "a", "c", "k">>
NY == <<"N", "Y">>
NJ == <<"N", "J">>

\* a NormalizedHackathon as DevpostAdapter builds it
Listing(title, start, end, location, url, registration) ==
  [id |-> 0,
   title |-> title,
   description |-> Undefined(""),
   start_date |-> start,
   end_date |-> end,
   registration_deadline |-> Undefined(0),
   location |-> location,
   is_online |-> "false",
   website_url |-> Val(url),
   registration_url |-> registration,
   source |-> "devpost"]

\* The listings an upstream page may carry.  EventE is EventO's page linked
\* with www., a trailing slash and a utm_source parameter, at a later date;
\* EventB is EventO retitled in lower case and registering at EventO's page;
\* EventX ends before it starts.
EventP == Listing(Hack, 1, 3, NY, DevpostUrl("/p"), Undefined(NoUrl))
EventO == Listing(Hack, 5, 7, NY, DevpostUrl("/o"), Undefined(NoUrl))
EventD == Listing(Hack, 5, 7, NJ, DevpostUrl("/d"), Undefined(NoUrl))
EventE ==
  Listing(Hack, 9, 11, NY,
          [DevpostUrl("/o") EXCEPT !.www = TRUE, !.slash = TRUE,
                                   !.params = {"utm_source"}],
          Undefined(NoUrl))
EventB == Listing(hack, 5, 7, NY, DevpostUrl("/b"), Val(DevpostUrl("/o")))
EventX == Listing(Hack, 9, 8, NY, DevpostUrl("/p"), Undefined(NoUrl))
Listings == {EventP, EventO, EventD, EventE, EventB, EventX}

SeqsUpTo(S, n) == UNION {[1..k -> S] : k \in 0..n}

RobotsLines ==
  {[f |-> "user-agent", v |-> <<"*">>],
   [f |-> "user-agent", v |-> <<"g", "o", "o", "g", "l", "e", "b", "o", "t">>],
   [f |-> "disallow", v |-> HackathonsPath],
   [f |-> "allow", v |-> HackathonsPath]}

(* ------------------------- IngestionScheduler -------------------------- *)
\* this.adapters
Adapters == <<"devpost">>
Runs == 1..MaxRuns

VARIABLES
  isRunning,    \* IngestionScheduler.isRunning
  started,      \* number of runIngestion calls that got past the guard
  pc,           \* per run: "idle", "robots", "robotsFetched", "scrape",
                \* "process", "done"
  adapter,      \* per run: index of the adapter being ingested
  batch,        \* per run: scrapedEvents of the current adapter
  idx,          \* per run: number of scrapedEvents already handled
  result,       \* per run: the ScrapingResult being filled
  results,      \* per run: the ScrapingResults pushed so far
  store,        \* the hackathons table
  nextId,       \* next fresh id (randomUUID)
  now,          \* the clock, in days
  robots,       \* the robots.txt content a compliance check is holding
  written,      \* history, per run: ids of the rows the run created or updated
  lastTrigger,  \* history: kind and outcome of the last trigger
  lastOp        \* history: what the last processEvent call did

VARIABLES
  maxRetries,   \* HttpClient.maxRetries
  maxConcurrent, \* the maxConcurrent the HttpClient gives its limiter
  hclock,       \* the time, in ms, as the HttpClient's limiter and timers see it
  jobs,         \* per get() call: where it stands
  queue,        \* the limiter's queue: the get() calls not launched yet
  lastLaunch,   \* the time the limiter last launched a job, -1 before the first
  lastRequest,  \* history: the time of the last fetch() call, -1 before the first
  call,         \* the last DeduplicationService call: its arguments and result
  scraper       \* one DevpostAdapter.scrape() call: where it stands

httpVars == <<maxRetries, maxConcurrent, hclock, jobs, queue, lastLaunch, lastRequest>>
schedulerVars ==
  <<isRunning, started, pc, adapter, batch, idx, result, results, store, nextId,
    now, robots, written, lastTrigger, lastOp>>

vars ==
  <<isRunning, started, pc, adapter, batch, idx, result, results, store, nextId,
    now, robots, written, lastTrigger, lastOp, maxRetries, maxConcurrent, hclock,
    jobs, queue, lastLaunch, lastRequest, call, scraper>>

newResult(a) ==
  [source_id |-> Adapters[a], events_found |-> 0, events_processed |-> 0,
   events_created |-> 0, events_updated |-> 0, errors |-> <<>>]

NoOp == [run |-> 0, kind |-> "none", event |-> EventP, target |-> 0, payload |-> 0]

(* ----------------------------- HttpClient ------------------------------ *)
\* options.maxRetries || 3: an absent or zero option gives the default
DefaultMaxRetries == 3
maxRetriesOf(option) == IF option = 0 THEN DefaultMaxRetries ELSE option
\* the maxRetries the scheduler constructs its HttpClient with
SchedulerMaxRetries == 3
\* options.retryDelay || 1000
retryDelay == 1000
\* options.rateLimitConfig || {maxConcurrent: 3, minTime: 1000}
DefaultMaxConcurrent == 3
minTime == 1000
\* the rateLimitConfig the scheduler constructs its HttpClient with:
\* parseInt(process.env.MAX_CONCURRENCY || '3')
SchedulerMaxConcurrent == 3

Jobs == 1..MaxJobs
\* the (url, source_id) arguments get() is called with
Targets ==
  {[url |-> "/robots.txt", source_id |-> "robots-check"],
   [url |-> "/hackathons", source_id |-> "devpost"]}
\* the ways one fetch attempt ends: a 2xx response whose body is read, a
\* non-2xx response, or fetch() rejecting (network error, abort on timeout)
Outcomes == {"ok", "http", "transport"}

NoError == [source_id |-> "", url |-> "", attempts |-> 0, cause |-> "none"]
NoJob ==
  [st |-> "none", url |-> "", source_id |-> "", attempt |-> 0, wake |-> 0,
   error |-> NoError]

\* new HttpClient(options): nothing scheduled yet
HttpClientInit(option, concurrency) ==
  /\ maxRetries = maxRetriesOf(option)
  /\ maxConcurrent = concurrency
  /\ hclock = 0
  /\ jobs = [j \in Jobs |-> NoJob]
  /\ queue = <<>>
  /\ lastLaunch = 0 - 1
  /\ lastRequest = 0 - 1

\* no DeduplicationService call made yet
NoCall == [op |-> "none"]

\* no scrape() call made yet: tried lists the extraction strategies run so
\* far with what each one gave, hackathons counts the records collected
NoScrape ==
  [pc |-> "idle", endpoint |-> 0, tried |-> <<>>, hackathons |-> 0,
   events_found |-> 0, errors |-> <<>>]

(* ------------------------- scheduler, continued ------------------------ *)
SchedulerInit ==
  /\ isRunning = FALSE
  /\ started = 0
  /\ pc = [r \in Runs |-> "idle"]
  /\ adapter = [r \in Runs |-> 0]
  /\ batch = [r \in Runs |-> <<>>]
  /\ idx = [r \in Runs |-> 0]
  /\ result = [r \in Runs |-> newResult(1)]
  /\ results = [r \in Runs |-> <<>>]
  /\ store = <<>>
  /\ nextId = 1
  /\ now = 0
  /\ robots = <<>>
  /\ written = [r \in Runs |-> {}]
  /\ lastTrigger = [kind |-> "none", outcome |-> "none"]
  /\ lastOp = NoOp

\* the state after `new IngestionScheduler(db)`
Init ==
  /\ SchedulerInit
  /\ HttpClientInit(SchedulerMaxRetries, SchedulerMaxConcurrent)
  /\ call = NoCall
  /\ scraper = NoScrape

\* faulty variant: the cron callback does not look at isRunning
cronNeverSkips == FALSE
\* the guard of the cron callback: if (this.isRunning) { log; return }
cronSkips == isRunning
\* faulty variant: runIngestion does not look at isRunning
neverAlreadyRunning == FALSE
\* the guard of runIngestion: if (this.isRunning) throw
alreadyRunning == isRunning

\* runIngestion up to its first await: isRunning = true, then the first
\* adapter's runAdapterIngestion begins
startRun(kind) ==
  /\ started < MaxRuns
  /\ isRunning' = TRUE
  /\ started' = started + 1
  /\ pc' = [pc EXCEPT ![started + 1] = "robots"]
  /\ adapter' = [adapter EXCEPT ![started + 1] = 1]
  /\ result' = [result EXCEPT ![started + 1] = newResult(1)]
  /\ lastTrigger' = [kind |-> kind, outcome |-> "started"]
  /\ UNCHANGED <<batch, idx, results, store, nextId, now, robots, written, lastOp>>
  /\ UNCHANGED <<httpVars, call, scraper>>

refused(kind, outcome) ==
  /\ lastTrigger' = [kind |-> kind, outcome |-> outcome]
  /\ UNCHANGED <<isRunning, started, pc, adapter, batch, idx, result, results,
                 store, nextId, now, robots, written, lastOp>>
  /\ UNCHANGED <<httpVars, call, scraper>>

\* a tick of the cron schedule set up by start()
CronTick ==
  IF cronSkips THEN refused("cron", "skipped")
  ELSE IF alreadyRunning THEN refused("cron", "failed")
  ELSE startRun("cron")

\* a manual runIngestion() call
RunIngestion ==
  IF alreadyRunning THEN refused("manual", "threw")
  ELSE startRun("manual")

\* faulty variant: the adapter's result is not pushed to the run's results
finishWithoutResult(r, res) ==
  /\ results' = results
  /\ adapter' = adapter
  /\ result' = [result EXCEPT ![r] = res]
  /\ pc' = [pc EXCEPT ![r] = "done"]
  /\ isRunning' = FALSE

\* faulty variant: runIngestion returns without its finally block
finishWithoutFinally(r, res) ==
  /\ results' = [results EXCEPT ![r] = Append(@, res)]
  /\ adapter' = adapter
  /\ result' = [result EXCEPT ![r] = res]
  /\ pc' = [pc EXCEPT ![r] = "done"]
  /\ isRunning' = isRunning

\* the end of runAdapterIngestion for run r with result res: the result is
\* pushed and either the next adapter begins or runIngestion returns through
\* its finally block
finishAdapter(r, res) ==
  /\ results' = [results EXCEPT ![r] = Append(@, res)]
  /\ IF adapter[r] < Len(Adapters)
     THEN /\ adapter' = [adapter EXCEPT ![r] = @ + 1]
          /\ result' = [result EXCEPT ![r] = newResult(adapter[r] + 1)]
          /\ pc' = [pc EXCEPT ![r] = "robots"]
          /\ isRunning' = isRunning
     ELSE /\ adapter' = adapter
          /\ result' = [result EXCEPT ![r] = res]
          /\ pc' = [pc EXCEPT ![r] = "done"]
          /\ isRunning' = FALSE

\* isRobotsTxtCompliant: checkRobotsTxt resolves with the content of
\* /robots.txt, or with null when the fetch failed
FetchRobots(r) ==
  /\ pc[r] = "robots"
  /\ \E content \in SeqsUpTo(RobotsLines, MaxRobotsLines) : robots' = content
  /\ pc' = [pc EXCEPT ![r] = "robotsFetched"]
  /\ UNCHANGED <<isRunning, started, adapter, batch, idx, result, results, store,
                 nextId, now, written, lastTrigger, lastOp>>
  /\ UNCHANGED <<httpVars, call, scraper>>

\* runAdapterIngestion: the verdict of isRobotsTxtCompliant; a non-compliant
\* adapter throws into the adapter-level catch
CheckRobots(r) ==
  /\ pc[r] = "robotsFetched"
  /\ IF isRobotsTxtCompliant(robots)
     THEN /\ pc' = [pc EXCEPT ![r] = "scrape"]
          /\ UNCHANGED <<isRunning, adapter, result, results>>
     ELSE finishAdapter(r, [result[r] EXCEPT !.errors =
            Append(@, "Adapter error: not compliant with robots.txt")])
  /\ robots' = <<>>
  /\ UNCHANGED <<started, batch, idx, store, nextId, now, written, lastTrigger,
                 lastOp>>
  /\ UNCHANGED <<httpVars, call, scraper>>

\* runAdapterIngestion: adapter.scrape()
Scrape(r) ==
  /\ pc[r] = "scrape"
  /\ \E strategy \in Strategies, items \in SeqsUpTo(Listings, MaxBatch) :
       LET scrapedEvents == scrape(strategy, items)
           res == [result[r] EXCEPT !.events_found = Len(scrapedEvents)]
       IN /\ batch' = [batch EXCEPT ![r] = scrapedEvents]
          /\ idx' = [idx EXCEPT ![r] = 0]
          /\ IF scrapedEvents = <<>>
             THEN finishAdapter(r, res)
             ELSE /\ result' = [result EXCEPT ![r] = res]
                  /\ pc' = [pc EXCEPT ![r] = "process"]
                  /\ UNCHANGED <<isRunning, adapter, results>>
  /\ UNCHANGED <<started, store, nextId, now, robots, written, lastTrigger,
                 lastOp>>
  /\ UNCHANGED <<httpVars, call, scraper>>

\* processEvent, URL-match branch: update(existing.id, event)
updateExisting(table, event, id) ==
  [table |-> update(table, id, event), kind |-> "updated", target |-> id,
   payload |-> 0, created |-> 0,
   updated |-> IF updateChanged(table, id) THEN 1 ELSE 0]

\* processEvent, no match: create(event)
createNew(table, fresh, event) ==
  [table |-> create(table, fresh, event), kind |-> "created", target |-> fresh,
   payload |-> 0, created |-> 1, updated |-> 0]

\* processEvent, duplicate branch: update(existingId, merged); the UPDATE
\* throws when it would give the row the id of another row
updateMerged(table, existingId, merged) ==
  IF primaryKeyViolated(table, existingId, merged)
  THEN [table |-> table, kind |-> "error", target |-> existingId,
        payload |-> merged.id, created |-> 0, updated |-> 0]
  ELSE [table |-> update(table, existingId, merged), kind |-> "merged",
        target |-> existingId, payload |-> merged.id, created |-> 0,
        updated |-> 1]

\* processEvent once `group` is found: existingId is the id of the first
\* recent row titled like group.original
mergeInto(table, fresh, event, recentHackathons, group) ==
  LET SameTitle(h) == h.title = group.original.title
  IN IF FirstIndex(recentHackathons, SameTitle) # 0
     THEN updateMerged(table,
                       recentHackathons[FirstIndex(recentHackathons, SameTitle)].id,
                       mergeDuplicates(group.original, <<event>>))
     ELSE createNew(table, fresh, event)

\* processEvent after findDuplicates: the group is the first one with a
\* duplicate whose title and source are the event's
dedupOrCreate(table, fresh, event, recentHackathons, duplicateGroups) ==
  LET HasEvent(g) ==
        \E n \in 1..Len(g.duplicates) :
          g.duplicates[n].title = event.title /\ g.duplicates[n].source = event.source
  IN IF FirstIndex(duplicateGroups, HasEvent) # 0
     THEN mergeInto(table, fresh, event, recentHackathons,
                    duplicateGroups[FirstIndex(duplicateGroups, HasEvent)])
     ELSE createNew(table, fresh, event)

\* processEvent once findByUrl has answered with row index `existing` (0 for
\* null)
afterLookup(table, clock, fresh, event, existing) ==
  IF existing # 0
  THEN updateExisting(table, event, table[existing].id)
  ELSE dedupOrCreate(table, fresh, event,
                     findUpcoming(table, clock, UpcomingLimit),
                     findDuplicates(<<event>> \o findUpcoming(table, clock, UpcomingLimit),
                                    DefaultThreshold))

\* processEvent(event, result) against `table` at time `clock`: the table it
\* leaves, what it did, and whether it threw
processEvent(table, clock, fresh, event) ==
  afterLookup(table, clock, fresh, event,
              IF Truthy(event.website_url)
              THEN findByUrl(table, event.website_url.v) ELSE 0)

\* processEvent when a statement of the HackathonModel rejects (the Database
\* wrapper rejects with the driver's error): processEvent rethrows; it issues
\* at most one write, as its last statement, so the table is as it was
storeFailure(table) ==
  [table |-> table, kind |-> "failed", target |-> 0, payload |-> 0,
   created |-> 0, updated |-> 0]

\* processEvent threw
threw(out) == out.kind \in {"error", "failed"}

\* faulty variant: a candidate whose processing threw is counted as processed
\* and leaves no error
countedSilently(res, out) ==
  [res EXCEPT !.events_created = @ + out.created,
              !.events_updated = @ + out.updated,
              !.events_processed = @ + 1]

\* faulty variant: a candidate whose processing threw is recorded as an error
\* and counted as processed, created or updated as well
countedTwice(res, out) ==
  [res EXCEPT !.errors = IF threw(out) THEN Append(@, "Event processing error: SQLITE_ERROR")
                         ELSE @,
              !.events_created = @ + out.created,
              !.events_updated = @ + out.updated,
              !.events_processed = @ + 1]
\* the result after one iteration of the loop over scrapedEvents
counted(res, out) ==
  IF threw(out)
  THEN [res EXCEPT !.errors =
          Append(@, IF out.kind = "error"
                    THEN "Event processing error: SQLITE_CONSTRAINT"
                    ELSE "Event processing error: SQLITE_ERROR")]
  ELSE [res EXCEPT !.events_created = @ + out.created,
                   !.events_updated = @ + out.updated,
                   !.events_processed = @ + 1]

\* the effect of processEvent(event, result) having ended with `out`
processed(r, event, out) ==
  /\ store' = out.table
  /\ nextId' = IF out.kind = "created" THEN nextId + 1 ELSE nextId
  /\ lastOp' = [run |-> r, kind |-> out.kind, event |-> event,
                target |-> out.target, payload |-> out.payload]
  /\ written' = IF threw(out) THEN written
                 ELSE [written EXCEPT ![r] = @ \cup {out.target}]
  /\ idx' = [idx EXCEPT ![r] = @ + 1]
  /\ IF idx[r] + 1 = Len(batch[r])
     THEN finishAdapter(r, counted(result[r], out))
     ELSE /\ result' = [result EXCEPT ![r] = counted(result[r], out)]
          /\ UNCHANGED <<isRunning, adapter, results, pc>>

\* faulty variant: the loop takes scrapedEvents from the end
lastCandidate(r) == batch[r][Len(batch[r]) - idx[r]]

\* `for (const event of scrapedEvents)`: the candidate of the next iteration
nextCandidate(r) == batch[r][idx[r] + 1]

\* one iteration of the loop over scrapedEvents in runAdapterIngestion
ProcessEvent(r) ==
  /\ pc[r] = "process"
  /\ idx[r] < Len(batch[r])
  /\ \E fails \in BOOLEAN :
       processed(r, nextCandidate(r),
                 IF fails THEN storeFailure(store)
                 ELSE processEvent(store, now, nextId, nextCandidate(r)))
  /\ UNCHANGED <<started, batch, now, robots, lastTrigger>>
  /\ UNCHANGED <<httpVars, call, scraper>>

\* a day passes
Tick ==
  /\ now < MaxNow
  /\ now' = now + 1
  /\ UNCHANGED <<isRunning, started, pc, adapter, batch, idx, result, results,
                 store, nextId, robots, written, lastTrigger, lastOp>>
  /\ UNCHANGED <<httpVars, call, scraper>>

Next ==
  \/ CronTick
  \/ RunIngestion
  \/ \E r \in Runs : FetchRobots(r)
  \/ \E r \in Runs : CheckRobots(r)
  \/ \E r \in Runs : Scrape(r)
  \/ \E r \in Runs : ProcessEvent(r)
  \/ Tick

Spec == Init /\ [][Next]_vars

\* a step of a run in progress: the continuation of one of its awaits
RunStep ==
  \E r \in Runs : FetchRobots(r) \/ CheckRobots(r) \/ Scrape(r) \/ ProcessEvent(r)

\* what a step of Next that is a RunStep does, and no other step: a run
\* moves on (its pc or idx changes) and no run starts
RunAdvance == started' = started /\ (pc' # pc \/ idx' # idx)

\* WF_vars(RunStep), written out as []<>~ENABLED <<A>>_vars \/ []<><<A>>_vars:
\* a RunStep is enabled exactly when a run is in progress
RunStepFair == []<>(\A r \in Runs : pc[r] \in {"idle", "done"}) \/ []<><<RunAdvance>>_vars

\* the scheduler when every await of a run settles: the HTTP requests are
\* bounded by the timeout and the retry count, the browser by its page
\* timeouts, and the event loop then runs the continuation
SpecLive == Init /\ [][Next]_vars /\ RunStepFair

(* ------------------------------ claims --------------------------------- *)
activeRuns == {r \in Runs : pc[r] \notin {"idle", "done"}}
\* run r handles its next candidate in this step
Processing(r) == pc[r] = "process" /\ idx'[r] = idx[r] + 1
Candidate(r) == batch[r][idx[r] + 1]

\* C1: at most one ingestion run is in progress at any time, and isRunning
\* is set exactly while one is.
C1_SingleRun ==
  /\ Cardinality(activeRuns) <= 1
  /\ isRunning <=> activeRuns # {}
\* a trigger arrived during a run and was refused
C1_Witness ==
  /\ activeRuns # {}
  /\ lastTrigger.outcome \in {"skipped", "threw"}

\* C2 as claimed: no trigger ever ends in an error.
C2_NoTriggerRaises == lastTrigger.outcome \notin {"threw", "failed"}
\* C2 amended: a trigger that finds a run in progress starts nothing and
\* changes nothing; the scheduled tick is skipped without an error, the
\* manual call throws "Ingestion is already running"; and a run only ever
\* starts in the step of a trigger that found the scheduler idle.
C2_BusyTriggerRefused ==
  [][/\ (isRunning /\ lastTrigger' # lastTrigger) =>
          /\ UNCHANGED <<isRunning, started, pc, batch, idx, results, store>>
          /\ \/ lastTrigger' = [kind |-> "cron", outcome |-> "skipped"]
             \/ lastTrigger' = [kind |-> "manual", outcome |-> "threw"]
     /\ (started' # started) =>
          ~isRunning /\ lastTrigger'.outcome = "started"]_vars
C2_Witness ==
  /\ isRunning
  /\ lastTrigger = [kind |-> "manual", outcome |-> "threw"]

\* C3: a run that scrapes the same candidates as the run before it, with no
\* candidate of either run throwing, creates nothing and counts every
\* candidate as updated.
C3_Idempotent ==
  \A r \in Runs :
    (/\ r > 1 /\ pc[r] = "done" /\ batch[r] = batch[r - 1] /\ batch[r] # <<>>
     /\ results[r][1].errors = <<>> /\ results[r - 1][1].errors = <<>>) =>
      /\ results[r][1].events_created = 0
      /\ results[r][1].events_updated = Len(batch[r])

\* C4: when a run has ended, no two rows it wrote are duplicates of each
\* other at the default threshold.
C4_NoDuplicateRows ==
  \A r \in Runs :
    (pc[r] = "done" /\ r = started) =>
      \A i, j \in 1..Len(store) :
        (i < j /\ store[i].id \in written[r] /\ store[j].id \in written[r]) =>
          ~isDuplicate(store[i], store[j], DefaultThreshold)

\* C5: a candidate without a URL match that scores >= 0.85 against a row of
\* the upcoming window is counted as updated and creates no row (the store
\* answering every statement).
C5_DedupMerges ==
  [][\A r \in Runs :
       (/\ Processing(r)
        /\ lastOp'.kind # "failed"
        /\ \A n \in 1..Len(store) :
             /\ store[n].website_url # Candidate(r).website_url
             /\ store[n].registration_url # Candidate(r).website_url
        /\ \E n \in 1..Len(store) :
             /\ store[n].start_date > now
             /\ isDuplicate(Candidate(r), store[n], DefaultThreshold))
       => /\ Len(store') = Len(store)
          /\ result'[r].events_updated = result[r].events_updated + 1]_vars

\* C6: a candidate whose website_url has the canonical form of a stored
\* row's website_url updates a row and creates none (the store answering
\* every statement).
C6_CanonicalLookup ==
  [][\A r \in Runs :
       (/\ Processing(r)
        /\ lastOp'.kind # "failed"
        /\ \E n \in 1..Len(store) :
             /\ store[n].website_url.k = "val"
             /\ canonicalizeUrl(store[n].website_url.v) =
                  canonicalizeUrl(Candidate(r).website_url.v))
       => /\ Len(store') = Len(store)
          /\ result'[r].events_updated = result[r].events_updated + 1]_vars

\* C7: a candidate whose website_url equals the website_url or the
\* registration_url of a stored row updates such a row with its fields,
\* leaves the number of rows unchanged and adds exactly one to
\* events_updated and nothing to events_created (the store answering every
\* statement).
C7_UrlMatchUpdates ==
  [][\A r \in Runs :
       (/\ Processing(r)
        /\ lastOp'.kind # "failed"
        /\ \E n \in 1..Len(store) :
             \/ store[n].website_url = Candidate(r).website_url
             \/ store[n].registration_url = Candidate(r).website_url)
       => /\ Len(store') = Len(store)
          /\ result'[r].events_updated = result[r].events_updated + 1
          /\ result'[r].events_created = result[r].events_created
          /\ \E n \in 1..Len(store) :
               /\ \/ store[n].website_url = Candidate(r).website_url
                  \/ store[n].registration_url = Candidate(r).website_url
               /\ store'[n].title = Candidate(r).title
               /\ store'[n].start_date = Candidate(r).start_date
               /\ store'[n].website_url = Candidate(r).website_url
               /\ \A m \in 1..Len(store) : m # n => store'[m] = store[m]]_vars
\* a candidate was matched by URL to a row created earlier in the same run
C7_Witness ==
  /\ lastOp.kind = "updated"
  /\ lastOp.run = 1
  /\ results[1] # <<>>
  /\ results[1][1].events_created = 1
  /\ results[1][1].events_updated = 1

\* C8: no step changes the id of a stored row, and no row disappears.
C8_IdsStable ==
  [][/\ Len(store') >= Len(store)
     /\ \A n \in 1..Len(store) : store'[n].id = store[n].id]_vars
\* a dedup-driven merge whose payload was spread from a stored row (it
\* carries that row's id) has been written
C8_Witness ==
  /\ lastOp.kind = "merged"
  /\ lastOp.payload # 0

\* C9: every stored row ends strictly after it starts.
C9_EndAfterStart ==
  \A n \in 1..Len(store) : store[n].end_date > store[n].start_date

\* the `User-agent: *` block of `content` contains `Disallow: /hackathons`
StarBlockDisallows(content) ==
  \E i, j \in 1..Len(content) :
    /\ i < j
    /\ content[i] = [f |-> "user-agent", v |-> <<"*">>]
    /\ content[j] = [f |-> "disallow", v |-> HackathonsPath]
    /\ \A k \in (i + 1)..(j - 1) : content[k].f # "user-agent"
\* some block of `content` has an Allow rule matching /hackathons
SomeAllowMatches(content) ==
  \E j \in 1..Len(content) :
    content[j].f = "allow" /\ startsWith(HackathonsPath, content[j].v)

\* C10: an adapter whose robots.txt disallows /hackathons under
\* `User-agent: *`, with no Allow rule matching it, never reaches scrape().
C10_DisallowedNeverScraped ==
  [][\A r \in Runs :
       (/\ pc[r] = "robotsFetched"
        /\ StarBlockDisallows(robots)
        /\ ~SomeAllowMatches(robots))
       => pc'[r] # "scrape"]_vars

\* C14: when processing a candidate throws, one message is appended to the
\* adapter's errors, events_processed, events_created and events_updated
\* stay as they were, the table is untouched, and the loop goes on with the
\* next candidate if there is one; after every iteration the candidates
\* handled are those counted as processed plus those recorded as errors.
C14_RecordErrorIsolated ==
  [][\A r \in Runs :
       Processing(r) =>
         /\ result'[r].events_processed + Len(result'[r].errors) = idx'[r]
         /\ lastOp'.kind \in {"error", "failed"} =>
              /\ Len(result'[r].errors) = Len(result[r].errors) + 1
              /\ result'[r].events_processed = result[r].events_processed
              /\ result'[r].events_created = result[r].events_created
              /\ result'[r].events_updated = result[r].events_updated
              /\ store' = store
              /\ idx[r] + 1 < Len(batch[r]) =>
                   pc'[r] = "process" /\ isRunning' /\ batch'[r] = batch[r]]_vars
\* a candidate was created after an earlier candidate of the same batch threw
C14_Witness ==
  /\ lastOp.kind = "created"
  /\ lastOp.run \in Runs
  /\ Len(result[lastOp.run].errors) = 1
  /\ result[lastOp.run].events_processed = 1
  /\ idx[lastOp.run] = 2

\* C15: once a store operation has failed while a candidate of an adapter's
\* batch was processed, no further candidate of that batch is processed.
C15_StoreFailureAborts ==
  [][\A r \in Runs : Processing(r) => result[r].errors = <<>>]_vars

inFlight == {j \in Jobs : jobs[j].st \in {"fetching", "sleeping"}}

\* get(url, source_id): limiter.schedule(() => makeRequest(url, source_id))
Get(j) ==
  /\ jobs[j].st = "none"
  /\ IF j = 1 THEN TRUE ELSE jobs[j - 1].st # "none"
  /\ \E t \in Targets :
       jobs' = [jobs EXCEPT ![j] = [NoJob EXCEPT !.st = "queued", !.url = t.url,
                                                !.source_id = t.source_id]]
  /\ queue' = Append(queue, j)
  /\ UNCHANGED <<maxRetries, maxConcurrent, hclock, lastLaunch, lastRequest>>
  /\ UNCHANGED <<schedulerVars, call, scraper>>

\* faulty variant: the limiter does not bound the running jobs
slotAlwaysFree == TRUE
\* the limiter's maxConcurrent
slotFree == Cardinality(inFlight) < maxConcurrent
\* the limiter's minTime
spaced == lastLaunch = 0 - 1 \/ hclock >= lastLaunch + minTime

\* the limiter launches the job at the head of its queue: makeRequest starts
\* with attempt = 1 and calls fetch()
Launch ==
  /\ queue # <<>>
  /\ slotFree
  /\ spaced
  /\ jobs' = [jobs EXCEPT ![Head(queue)].st = "fetching",
                          ![Head(queue)].attempt = 1]
  /\ queue' = Tail(queue)
  /\ lastLaunch' = hclock
  /\ lastRequest' = hclock
  /\ UNCHANGED <<maxRetries, maxConcurrent, hclock>>
  /\ UNCHANGED <<schedulerVars, call, scraper>>

\* faulty variant: one attempt more than maxRetries
mayRetryOnceMore(attempt) == attempt <= maxRetries
\* makeRequest: if (attempt < this.maxRetries)
mayRetry(attempt) == attempt < maxRetries

\* new ScrapingError(`Failed to fetch ${url} after ${this.maxRetries}
\* attempts`, source_id, url, error)
ScrapingError(job, cause) ==
  [source_id |-> job.source_id, url |-> job.url, attempts |-> maxRetries,
   cause |-> cause]

\* makeRequest after its fetch attempt ended with `outcome`
afterAttempt(job, outcome) ==
  IF outcome = "ok" THEN [job EXCEPT !.st = "ok"]
  ELSE IF mayRetry(job.attempt)
  THEN [job EXCEPT !.st = "sleeping",
                   !.wake = hclock + retryDelay * 2 ^ (job.attempt - 1)]
  ELSE [job EXCEPT !.st = "failed", !.error = ScrapingError(job, outcome)]

\* the fetch attempt of job j ends
Respond(j) ==
  /\ jobs[j].st = "fetching"
  /\ \E outcome \in Outcomes :
       jobs' = [jobs EXCEPT ![j] = afterAttempt(jobs[j], outcome)]
  /\ UNCHANGED <<maxRetries, maxConcurrent, hclock, queue, lastLaunch, lastRequest>>
  /\ UNCHANGED <<schedulerVars, call, scraper>>

\* the back-off sleep of job j is over: makeRequest(url, source_id, attempt + 1)
\* calls fetch() again
Retry(j) ==
  /\ jobs[j].st = "sleeping"
  /\ hclock >= jobs[j].wake
  /\ jobs' = [jobs EXCEPT ![j].st = "fetching", ![j].attempt = @ + 1]
  /\ lastRequest' = hclock
  /\ UNCHANGED <<maxRetries, maxConcurrent, hclock, queue, lastLaunch>>
  /\ UNCHANGED <<schedulerVars, call, scraper>>

\* the times at which a timer is due: the end of a back-off sleep, or the
\* limiter's minTime after its last launch
deadlines ==
  {jobs[j].wake : j \in {k \in Jobs : jobs[k].st = "sleeping"}}
    \cup (IF lastLaunch = 0 - 1 THEN {} ELSE {lastLaunch + minTime})

\* time passes, up to a later deadline
Advance ==
  /\ \E t \in deadlines : t > hclock /\ t <= MaxClock /\ hclock' = t
  /\ UNCHANGED <<maxRetries, maxConcurrent, jobs, queue, lastLaunch, lastRequest>>
  /\ UNCHANGED <<schedulerVars, call, scraper>>

InitHttp ==
  /\ SchedulerInit
  /\ \E option \in 0..MaxRetriesOption :
       \E concurrency \in 1..MaxConcurrency : HttpClientInit(option, concurrency)
  /\ call = NoCall
  /\ scraper = NoScrape

NextHttp ==
  \/ \E j \in Jobs : Get(j)
  \/ Launch
  \/ \E j \in Jobs : Respond(j)
  \/ \E j \in Jobs : Retry(j)
  \/ Advance

SpecHttp == InitHttp /\ [][NextHttp]_vars

\* a fetch() call is made in this step: by a job being launched or by a retry
requestStarts == \E j \in Jobs : jobs[j].st # "fetching" /\ jobs'[j].st = "fetching"

\* C11: a get() call makes at most maxRetries fetch attempts; once it has
\* succeeded or failed it makes no further attempt; it sleeps for a retry only
\* while attempts remain; when its last attempt fails it rejects, with a
\* ScrapingError carrying the source id and URL it was called with, the number
\* of attempts it made, and the cause (the non-2xx response or the transport
\* error).
C11_RetryContract ==
  [][\A j \in Jobs :
       /\ jobs'[j].attempt <= maxRetries
       /\ jobs[j].st \in {"ok", "failed"} => jobs'[j] = jobs[j]
       /\ jobs'[j].st = "sleeping" => jobs'[j].attempt < maxRetries
       /\ (jobs[j].st = "fetching" /\ jobs[j].attempt = maxRetries
             /\ jobs'[j] # jobs[j])
            => jobs'[j].st \in {"ok", "failed"}
       /\ jobs'[j].st = "failed"
            => /\ jobs[j].st \in {"fetching", "failed"}
               /\ jobs'[j].attempt = maxRetries
               /\ jobs'[j].error.source_id = jobs'[j].source_id
               /\ jobs'[j].error.url = jobs'[j].url
               /\ jobs'[j].error.attempts = jobs'[j].attempt
               /\ jobs'[j].error.cause \in Outcomes \ {"ok"}
               /\ \E t \in Targets :
                    t.url = jobs'[j].url /\ t.source_id = jobs'[j].source_id]_vars

\* a get() call with the default maxRetries has failed after three attempts,
\* and another one has succeeded on a retry
C11_Witness ==
  /\ maxRetries = DefaultMaxRetries
  /\ \E j \in Jobs : jobs[j].st = "failed" /\ jobs[j].attempt = DefaultMaxRetries
                       /\ jobs[j].error.cause = "http"
  /\ \E j \in Jobs : jobs[j].st = "ok" /\ jobs[j].attempt = 2

\* C12: at most maxConcurrent get() calls are in flight at any time, a call
\* being in flight from its first fetch attempt until it has succeeded or
\* failed, its back-off sleeps included.
C12_AtMostMaxConcurrent == Cardinality(inFlight) <= maxConcurrent

\* with the default maxConcurrent, three calls are in flight, one of them in a
\* back-off sleep, and a fourth call is waiting although minTime has passed
C12_Witness ==
  /\ maxConcurrent = DefaultMaxConcurrent
  /\ Cardinality(inFlight) = maxConcurrent
  /\ \E j \in inFlight : jobs[j].st = "sleeping"
  /\ queue # <<>>
  /\ spaced

\* C13: every fetch() call made through the HttpClient, first attempts and
\* retries alike, starts at least minTime after the previous one.
C13_MinInterval ==
  [][requestStarts => (lastRequest = 0 - 1 \/ hclock - lastRequest >= minTime)]_vars

(* ------------------ DeduplicationService, called directly -------------- *)
\* The service is a set of static functions without state: a behaviour is one
\* call, with its arguments and its result.
AIHack2024 == <<"A", "I", " ", "H", "a", "c", "k", " ", "2", "0", "2", "4">>
AIHackathon2024 ==
  <<"A", "I", " ", "H", "a", "c", "k", "a", "t", "h", "o", "n", " ",
    "2", "0", "2", "4">>
Online == <<"O", "n", "l", "i", "n", "e">>
Virtual == <<"V", "i", "r", "t", "u", "a", "l">>
\* 2024-10-15, as the day of October 2024
Oct15 == 15

\* the values of NormalizedHackathon.source (z.enum)
Sources == {"devpost", "mlh", "eventbrite"}

\* a NormalizedHackathon of two days, as any adapter may build it
Normalized(title, start, location, online, source) ==
  [Listing(title, start, start + 2, location, NoUrl, Undefined(NoUrl))
     EXCEPT !.is_online = online, !.website_url = Undefined(NoUrl),
            !.source = source]

\* the records similarity is computed for: is_online is a JS boolean, or the
\* INTEGER 1 of a row read back from the store
Candidates ==
  {Normalized(title, start, location, online, source) :
     title \in {AIHack2024, AIHackathon2024},
     start \in {Oct15, Oct15 + 2, Oct15 + 5},
     location \in {Online, Virtual, <<>>},
     online \in {"true", "false", "1"},
     source \in {"devpost"}}
Thresholds == {DefaultThreshold, 70}

\* isDuplicate(h1, h2, threshold), with the similarity it computes
Compare ==
  /\ call = NoCall
  /\ \E h1 \in Candidates, h2 \in Candidates, threshold \in Thresholds :
       call' = [op |-> "isDuplicate", h1 |-> h1, h2 |-> h2,
                threshold |-> threshold,
                similarity |-> calculateSimilarity(h1, h2),
                out |-> isDuplicate(h1, h2, threshold)]
  /\ UNCHANGED <<schedulerVars, httpVars, scraper>>

\* the candidates of the scenario, a record that duplicates the first one and
\* a record that duplicates that one but not the first
AIHackOnline == Normalized(AIHack2024, Oct15, Online, "true", "devpost")
AIHackathonVirtual == Normalized(AIHackathon2024, Oct15, Virtual, "true", "eventbrite")
Submissions ==
  {AIHackOnline, AIHackathonVirtual,
   Normalized(AIHackathon2024, Oct15, Online, "true", "mlh"),
   Normalized(AIHackathon2024, Oct15, Online, "false", "eventbrite")}

\* a title or location that is not there: the property reads as undefined
undefined == <<"undefined">>

\* str1.toLowerCase() / str2.toLowerCase() throw a TypeError on undefined
stringSimilarityThrows(str1, str2) == str1 = undefined \/ str2 = undefined

\* calculateSimilarity throws when one of its stringSimilarity calls does
calculateSimilarityThrows(h1, h2) ==
  \/ stringSimilarityThrows(h1.title, h2.title)
  \/ stringSimilarityThrows(h1.location, h2.location)

\* whether the inner loop of findDuplicates, from j on, throws
RECURSIVE scanThrows(_, _, _, _, _)
scanThrows(hs, threshold, i, j, done) ==
  IF j > Len(hs) THEN FALSE
  ELSE IF j \in done THEN scanThrows(hs, threshold, i, j + 1, done)
  ELSE IF calculateSimilarityThrows(hs[i], hs[j]) THEN TRUE
  ELSE IF isDuplicate(hs[i], hs[j], threshold)
       THEN scanThrows(hs, threshold, i, j + 1, done \cup {j})
       ELSE scanThrows(hs, threshold, i, j + 1, done)

\* whether the outer loop of findDuplicates, from i on, throws
RECURSIVE groupsThrow(_, _, _, _)
groupsThrow(hs, threshold, i, done) ==
  IF i > Len(hs) THEN FALSE
  ELSE IF i \in done THEN groupsThrow(hs, threshold, i + 1, done)
  ELSE IF scanThrows(hs, threshold, i, i + 1, done) THEN TRUE
  ELSE groupsThrow(hs, threshold, i + 1,
                   dupScan(hs, threshold, i, i + 1, done, <<>>)[2] \cup {i})

\* findDuplicates(hackathons, threshold) throws: nothing in it catches
findDuplicatesThrows(hackathons, threshold) ==
  groupsThrow(hackathons, threshold, 1, {})

\* records whose title or location is missing
Malformed ==
  {[AIHackOnline EXCEPT !.title = undefined],
   [AIHackathonVirtual EXCEPT !.location = undefined]}

\* findDuplicates(hackathons): the threshold is the default; the call
\* returns the groups or ends in the TypeError
Group ==
  /\ call = NoCall
  /\ \E hackathons \in SeqsUpTo(Submissions \cup Malformed, MaxList) :
       call' = IF findDuplicatesThrows(hackathons, DefaultThreshold)
               THEN [op |-> "findDuplicates threw", hackathons |-> hackathons,
                     threshold |-> DefaultThreshold, error |-> "TypeError"]
               ELSE [op |-> "findDuplicates", hackathons |-> hackathons,
                     threshold |-> DefaultThreshold,
                     out |-> findDuplicates(hackathons, DefaultThreshold)]
  /\ UNCHANGED <<schedulerVars, httpVars, scraper>>

\* the records of a duplicate group: each source reports the event under
\* either title, with the data that goes with it
Descriptions == {Undefined(""), Val(""), Val("a"), Val("ab")}
Reports ==
  {[Normalized(AIHack2024, Oct15, Online, "true", source)
      EXCEPT !.description = description] :
     source \in Sources, description \in Descriptions}
    \cup {[Normalized(AIHackathon2024, Oct15 + 2, Virtual, "false", source)
             EXCEPT !.website_url = Val(DevpostUrl("/o")),
                    !.description = description] :
             source \in Sources, description \in Descriptions}

\* mergeDuplicates(original, duplicates)
Merge ==
  /\ call = NoCall
  /\ \E original \in Reports :
       \E duplicates \in SeqsUpTo(Reports, MaxGroup) :
         call' = [op |-> "mergeDuplicates", original |-> original,
                  duplicates |-> duplicates,
                  out |-> mergeDuplicates(original, duplicates)]
  /\ UNCHANGED <<schedulerVars, httpVars, scraper>>

NextDedup == Group \/ Merge \/ Compare

SpecDedup == Init /\ [][NextDedup]_vars

\* the fractions a and b are the same number
sameNumber(a, b) == a[1] * b[2] = b[1] * a[2]

\* C18: calculateSimilarity(h1, h2) is the number calculateSimilarity(h2, h1)
\* is, and so isDuplicate(h1, h2, t) = isDuplicate(h2, h1, t).
C18_Symmetric ==
  call.op = "isDuplicate"
    => /\ sameNumber(call.similarity, calculateSimilarity(call.h2, call.h1))
       /\ call.out = isDuplicate(call.h2, call.h1, call.threshold)

\* two records with titles of different lengths and is_online values of
\* different types have been compared and found duplicates at the lower
\* threshold only
C18_Witness ==
  /\ call.op = "isDuplicate"
  /\ call.h1.title = AIHack2024 /\ call.h2.title = AIHackathon2024
  /\ call.h1.is_online = "1" /\ call.h2.is_online = "true"
  /\ call.threshold = 70
  /\ call.out
  /\ ~isDuplicate(call.h1, call.h2, DefaultThreshold)

\* C19: findDuplicates, at the default threshold 0.85, called with the two
\* candidates of the scenario (in either order), returns them as one group.
C19_ScenarioGrouped ==
  (call.op = "findDuplicates" /\ Len(call.hackathons) = 2
     /\ {call.hackathons[1], call.hackathons[2]} = {AIHackOnline, AIHackathonVirtual})
    => call.out = <<[original |-> call.hackathons[1],
                     duplicates |-> <<call.hackathons[2]>>]>>

\* the rank of a source in mlh > devpost > eventbrite
Rank(source) ==
  CASE source = "mlh" -> 1
    [] source = "devpost" -> 2
    [] source = "eventbrite" -> 3

\* the position, in <<original>> \o duplicates, of the first record whose
\* source ranks highest
Base(group) ==
  CHOOSE i \in 1..Len(group) :
    \A k \in 1..Len(group) :
      \/ Rank(group[i].source) < Rank(group[k].source)
      \/ Rank(group[i].source) = Rank(group[k].source) /\ i <= k

baseFieldsOf(out, base) ==
  /\ out.title = base.title
  /\ out.start_date = base.start_date
  /\ out.end_date = base.end_date
  /\ out.location = base.location
  /\ out.is_online = base.is_online
  /\ out.source = base.source

\* C20: the title, start and end dates, location, online flag and source of
\* mergeDuplicates(original, duplicates) are those of the first record of
\* <<original>> \o duplicates whose source ranks highest in
\* mlh > devpost > eventbrite.
C20_MergeBase ==
  call.op = "mergeDuplicates"
    => baseFieldsOf(call.out,
                    (<<call.original>> \o call.duplicates)
                      [Base(<<call.original>> \o call.duplicates)])

\* an eventbrite original has been merged with a devpost duplicate followed
\* by an mlh one that carries other data: the merged record is the mlh one's
C20_Witness ==
  /\ call.op = "mergeDuplicates"
  /\ call.original.source = "eventbrite"
  /\ Len(call.duplicates) = 2
  /\ call.duplicates[1].source = "devpost"
  /\ call.duplicates[2].source = "mlh"
  /\ call.duplicates[2].title # call.original.title
  /\ call.out.source = "mlh"
  /\ call.out.title = call.duplicates[2].title

\* the length of a record's description, 0 when it has none
descriptionLength(e) == IF TruthyStr(e.description) THEN Len(e.description.v) ELSE 0

\* C21: when some record of <<original>> \o duplicates has a non-empty
\* description, the description of mergeDuplicates(original, duplicates) is
\* non-empty and no record of the group has a longer one.
C21_LongestDescription ==
  (call.op = "mergeDuplicates"
     /\ \E i \in 1..(1 + Len(call.duplicates)) :
          TruthyStr((<<call.original>> \o call.duplicates)[i].description))
    => /\ TruthyStr(call.out.description)
       /\ \A i \in 1..(1 + Len(call.duplicates)) :
            descriptionLength((<<call.original>> \o call.duplicates)[i])
              <= descriptionLength(call.out)

(* ------------------------ DevpostAdapter.scrape ------------------------ *)
\* scrape() tries the browser first and falls back to scrapeWithHttp() when
\* the browser throws; scrapeWithHttp() walks its endpoints and, on each page
\* it could fetch, its extraction strategies in turn.  A strategy is modelled
\* by the number of records it gives.

\* scrapeWithHttp: the endpoints, in the order they are tried
endpoints ==
  <<"/hackathons", "/api/hackathons", "/software-competitions",
    "/virtual-hackathons">>
\* endpoint.includes('/api/')
isApiEndpoint(e) == endpoints[e] = "/api/hackathons"

\* the strategy `strategy` has run on the current endpoint (0: the browser)
\* and pushed `yield` records, or has thrown
ran(s, strategy, yield, thrown) ==
  [s EXCEPT !.tried = Append(@, [endpoint |-> s.endpoint, strategy |-> strategy,
                                 yield |-> yield, threw |-> thrown]),
            !.hackathons = @ + yield]

\* return hackathons
returns(s) == [s EXCEPT !.pc = "returned"]
\* a strategy that gave nothing is followed by the next one
falls(s, next) == [s EXCEPT !.pc = next]

\* the for loop over the endpoints goes on, or ends and the function returns
nextEndpoint(s) ==
  IF s.endpoint = Len(endpoints) THEN returns(s)
  ELSE [s EXCEPT !.endpoint = @ + 1, !.pc = "endpoint"]

\* faulty variant: a failed fetch is thrown on to the caller of scrape()
endpointFailureRethrown(s) == [ran(s, "get", 0, TRUE) EXCEPT !.pc = "threw"]
\* catch (endpointError) { console.warn(...); continue; }
endpointFailed(s) == nextEndpoint(ran(s, "get", 0, TRUE))

\* runAdapterIngestion calls adapter.scrape()
StartScrape ==
  /\ scraper.pc = "idle"
  /\ scraper' = [scraper EXCEPT !.pc = "browser"]
  /\ UNCHANGED <<schedulerVars, httpVars, call>>

\* scrapeWithBrowser: it throws (the browser cannot be launched, page.goto
\* fails), or returns the empty list when no selector matches, or returns the
\* elements it could parse
ScrapeWithBrowser ==
  /\ scraper.pc = "browser"
  /\ \/ scraper' = [ran(scraper, "browser", 0, TRUE)
                      EXCEPT !.pc = "endpoint", !.endpoint = 1]
     \/ \E n \in 0..MaxYield : scraper' = returns(ran(scraper, "browser", n, FALSE))
  /\ UNCHANGED <<schedulerVars, httpVars, call>>

\* scrapeWithHttp: httpClient.get(baseUrl + endpoint) resolves or rejects
FetchEndpoint ==
  /\ scraper.pc = "endpoint"
  /\ \E ok \in BOOLEAN :
       scraper' = IF ok
                  THEN falls(scraper, IF isApiEndpoint(scraper.endpoint)
                                      THEN "apiJson" ELSE "embeddedJson")
                  ELSE endpointFailed(scraper)
  /\ UNCHANGED <<schedulerVars, httpVars, call>>

\* a strategy that ends the loop only when it gave a record
stopsWhenFound(s, strategy, n, next) ==
  IF n > 0 THEN returns(ran(s, strategy, n, FALSE))
  ELSE falls(ran(s, strategy, 0, FALSE), next)

\* the response of an /api/ endpoint parsed as JSON
ApiJson ==
  /\ scraper.pc = "apiJson"
  /\ \E n \in 0..MaxYield :
       scraper' = stopsWhenFound(scraper, "apiJson", n, "embeddedJson")
  /\ UNCHANGED <<schedulerVars, httpVars, call>>

\* script[type="application/json"]: foundData is set by any script that
\* mentions hackathons and parses, whatever extractHackathonsFromJson gives
EmbeddedJson ==
  /\ scraper.pc = "embeddedJson"
  /\ \E foundData \in BOOLEAN, n \in 0..MaxYield :
       /\ foundData \/ n = 0
       /\ scraper' = IF foundData
                     THEN returns(ran(scraper, "embeddedJson", n, FALSE))
                     ELSE falls(ran(scraper, "embeddedJson", 0, FALSE),
                                "structuredData")
  /\ UNCHANGED <<schedulerVars, httpVars, call>>

\* extractStructuredData
StructuredData ==
  /\ scraper.pc = "structuredData"
  /\ \E n \in 0..MaxYield :
       scraper' = stopsWhenFound(scraper, "structuredData", n, "modernPage")
  /\ UNCHANGED <<schedulerVars, httpVars, call>>

\* parseModernDevpostPage
ModernPage ==
  /\ scraper.pc = "modernPage"
  /\ \E n \in 0..MaxYield :
       scraper' = stopsWhenFound(scraper, "modernPage", n, "links")
  /\ UNCHANGED <<schedulerVars, httpVars, call>>

\* extractHackathonLinks: with links found, processHackathonLink is called on
\* them and the loop ends, whatever they gave; with none, the next endpoint
\* is tried
Links ==
  /\ scraper.pc = "links"
  /\ \E hackathonLinks \in 0..MaxYield :
       \E n \in 0..hackathonLinks :
         scraper' = IF hackathonLinks > 0
                    THEN returns(ran(scraper, "links", n, FALSE))
                    ELSE nextEndpoint(ran(scraper, "links", 0, FALSE))
  /\ UNCHANGED <<schedulerVars, httpVars, call>>

\* runAdapterIngestion after scrape(): result.events_found =
\* scrapedEvents.length, or the adapter-level catch when scrape() threw
Report ==
  /\ scraper.pc \in {"returned", "threw"}
  /\ scraper' =
       IF scraper.pc = "returned"
       THEN [scraper EXCEPT !.pc = "done", !.events_found = scraper.hackathons]
       ELSE [scraper EXCEPT !.pc = "done",
                            !.errors = Append(@, "Adapter error: Failed to fetch")]
  /\ UNCHANGED <<schedulerVars, httpVars, call>>

NextAdapter ==
  \/ StartScrape
  \/ ScrapeWithBrowser
  \/ FetchEndpoint
  \/ ApiJson
  \/ EmbeddedJson
  \/ StructuredData
  \/ ModernPage
  \/ Links
  \/ Report

SpecAdapter == Init /\ [][NextAdapter]_vars

\* the fetch of the listing page /hackathons has failed both ways: the
\* browser threw and httpClient.get rejected
primaryFetchFailed ==
  /\ \E i \in 1..Len(scraper.tried) :
       scraper.tried[i].strategy = "browser" /\ scraper.tried[i].threw
  /\ \E i \in 1..Len(scraper.tried) :
       /\ scraper.tried[i].strategy = "get" /\ scraper.tried[i].threw
       /\ endpoints[scraper.tried[i].endpoint] = "/hackathons"

exhausted ==
  /\ scraper.tried # <<>>
  /\ scraper.tried[Len(scraper.tried)].endpoint = Len(endpoints)
  /\ scraper.tried[Len(scraper.tried)].strategy \in {"links", "get"}

\* C27: scrape() returns without a record only when every strategy has been
\* tried, and no strategy runs after one that gave a record.
C27_TieredFallback ==
  /\ (scraper.pc \in {"returned", "done"} /\ scraper.hackathons = 0) => exhausted
  /\ \A i \in 1..Len(scraper.tried) :
       scraper.tried[i].yield > 0 => i = Len(scraper.tried)

\* the User-agent value v names the crawler: `*`, or a part of its name
agentApplies(v) ==
  \/ trim(toLowerCase(v)) = <<"*">>
  \/ includes(toLowerCase(crawlerAgent), trim(toLowerCase(v)))

\* line k of `content` is a rule of a block that applies to the crawler: the
\* nearest User-agent line before it names the crawler
ruleApplies(content, k) ==
  \E i \in 1..(k - 1) :
    /\ content[i].f = "user-agent"
    /\ agentApplies(content[i].v)
    /\ \A m \in (i + 1)..(k - 1) : content[m].f # "user-agent"

\* some rule of kind f, of a block that applies, has a prefix of `path`
ruleMatches(content, f, path) ==
  \E k \in 1..Len(content) :
    /\ content[k].f = f
    /\ ruleApplies(content, k)
    /\ trim(toLowerCase(content[k].v)) # <<>>
    /\ startsWith(path, trim(toLowerCase(content[k].v)))

\* the decision rule over the rules of all the blocks that apply
decidedByApplyingBlocks(content, path) ==
  IF content = <<>> THEN TRUE
  ELSE IF ruleMatches(content, "allow", path) THEN TRUE
  ELSE IF ruleMatches(content, "disallow", path) THEN FALSE
  ELSE TRUE

\* C23: for the robots.txt an adapter is holding, isAllowedByRobotsTxt gives
\* the decision taken over the Allow and Disallow rules of all the blocks
\* that apply to the crawler: allowed without content, allowed when an Allow
\* prefix matches, else refused when a Disallow prefix matches, else allowed;
\* blocks that do not apply change nothing.
C23_RobotsDecision ==
  \A r \in Runs :
    pc[r] = "robotsFetched"
      => (isAllowedByRobotsTxt(robots, crawlerAgent, HackathonsPath)
            = decidedByApplyingBlocks(robots, HackathonsPath))

\* the primary of the group that hs[j] is a member of, 0 when it is a member
\* of none: the first earlier record that is itself a member of no group and
\* that hs[j] scores at least t against
RECURSIVE primaryOf(_, _, _)
primaryOf(hs, t, j) ==
  IF \E i \in 1..(j - 1) : primaryOf(hs, t, i) = 0 /\ isDuplicate(hs[i], hs[j], t)
  THEN CHOOSE i \in 1..(j - 1) :
         /\ primaryOf(hs, t, i) = 0 /\ isDuplicate(hs[i], hs[j], t)
         /\ \A k \in 1..(i - 1) :
              ~(primaryOf(hs, t, k) = 0 /\ isDuplicate(hs[k], hs[j], t))
  ELSE 0

\* the positions of the members of the group of primary p, in input order
membersOf(hs, t, p) ==
  SelectSeq([j \in 1..Len(hs) |-> j], LAMBDA j : primaryOf(hs, t, j) = p)

\* the positions of the primaries that have a member, in input order
primariesOf(hs, t) ==
  SelectSeq([p \in 1..Len(hs) |-> p],
            LAMBDA p : \E j \in 1..Len(hs) : primaryOf(hs, t, j) = p)

\* C24: findDuplicates(records, t) returns, in input order, one group for
\* each record p that is a member of no earlier group and has members: the
\* later records, in no earlier group, that score at least t against p.  So
\* the positions in the groups are pairwise distinct.
C24_GreedyGroups ==
  call.op = "findDuplicates"
    => /\ Len(call.out) = Len(primariesOf(call.hackathons, call.threshold))
       /\ \A g \in 1..Len(call.out) :
            /\ call.out[g].original
                 = call.hackathons[primariesOf(call.hackathons, call.threshold)[g]]
            /\ call.out[g].duplicates
                 = [n \in 1..Len(membersOf(call.hackathons, call.threshold,
                                           primariesOf(call.hackathons, call.threshold)[g]))
                      |-> call.hackathons[
                            membersOf(call.hackathons, call.threshold,
                                      primariesOf(call.hackathons, call.threshold)[g])[n]]]

\* three records where the third duplicates both earlier ones, which do not
\* duplicate each other: it joins the first one's group only
C24_Witness ==
  /\ call.op = "findDuplicates"
  /\ Len(call.hackathons) = 3
  /\ ~isDuplicate(call.hackathons[1], call.hackathons[2], call.threshold)
  /\ isDuplicate(call.hackathons[1], call.hackathons[3], call.threshold)
  /\ isDuplicate(call.hackathons[2], call.hackathons[3], call.threshold)
  /\ call.out = <<[original |-> call.hackathons[1],
                   duplicates |-> <<call.hackathons[3]>>]>>

\* the candidate e and the stored row agree in title, start date, location
\* and online flag
sameEvent(e, row) ==
  /\ row.title = e.title
  /\ row.start_date = e.start_date
  /\ row.location = e.location
  /\ TruthyFlag(row.is_online) = TruthyFlag(e.is_online)

\* C25: when processEvent compares the next candidate with the rows
\* findUpcoming gives (no row matches the candidate's URL), a row that agrees
\* with the candidate in title, start date, location and online flag scores 1
\* against it.
C25_OnlineCreditOnStoredRow ==
  \A r \in Runs :
    (/\ pc[r] = "process" /\ idx[r] < Len(batch[r])
     /\ Truthy(nextCandidate(r).website_url)
     /\ findByUrl(store, nextCandidate(r).website_url.v) = 0)
      => \A n \in 1..Len(findUpcoming(store, now, UpcomingLimit)) :
           sameEvent(nextCandidate(r), findUpcoming(store, now, UpcomingLimit)[n])
             => sameNumber(calculateSimilarity(
                             nextCandidate(r),
                             findUpcoming(store, now, UpcomingLimit)[n]),
                           <<1, 1>>)

\* the record has its title and its location
wellFormed(h) == h.title # undefined /\ h.location # undefined

\* C26: a call of findDuplicates never ends in an exception: it returns, and
\* what it returns are the groups of the records that have a title and a
\* location, a record without one being in no group.
C26_MalformedSetAside ==
  call.op \in {"findDuplicates", "findDuplicates threw"}
    => /\ call.op = "findDuplicates"
       /\ call.out = findDuplicates(SelectSeq(call.hackathons, wellFormed),
                                    call.threshold)

\* the message is one the loop over scrapedEvents pushes for a candidate
isEventError(message) ==
  message \in {"Event processing error: SQLITE_CONSTRAINT",
               "Event processing error: SQLITE_ERROR"}

\* the counters of a ScrapingResult add up
accounted(res) ==
  /\ res.events_processed + Len(SelectSeq(res.errors, isEventError))
       = res.events_found
  /\ res.events_created + res.events_updated <= res.events_processed

\* C28: every ScrapingResult a run has pushed has events_processed plus its
\* per-event errors equal to events_found and events_created + events_updated
\* at most events_processed; and the handling of one candidate adds one to
\* events_created, or one to events_updated, or nothing to either.
C28_Accounting ==
  [][/\ \A r \in Runs : \A n \in 1..Len(results'[r]) : accounted(results'[r][n])
     /\ \A r \in Runs :
          Processing(r) =>
            <<result'[r].events_created - result[r].events_created,
              result'[r].events_updated - result[r].events_updated>>
              \in {<<0, 0>>, <<1, 0>>, <<0, 1>>}]_vars
\* a pushed result of two candidates found: one created, one whose processing
\* threw
C28_Witness ==
  \E r \in Runs :
    /\ results[r] # <<>>
    /\ results[r][1].events_found = 2
    /\ results[r][1].events_processed = 1
    /\ results[r][1].events_created = 1
    /\ Len(SelectSeq(results[r][1].errors, isEventError)) = 1

\* C30: when processEvent merges a candidate into a stored row instead of
\* creating it, that row is a duplicate of the candidate: it scores at least
\* the default threshold against it.
C30_MergeTargetsDuplicate ==
  [][\A r \in Runs :
       (Processing(r) /\ lastOp'.kind = "merged")
         => \E n \in 1..Len(store) :
              /\ store[n].id = lastOp'.target
              /\ isDuplicate(Candidate(r), store[n], DefaultThreshold)]_vars

\* C29: a run that has started ends, with isRunning false again at its end;
\* and a trigger is refused only while a run is in progress.
C29_RunsEnd ==
  /\ \A r \in Runs :
       (pc[r] \notin {"idle", "done"}) ~> (pc[r] = "done" /\ ~isRunning)
  /\ [][(lastTrigger' # lastTrigger /\ lastTrigger'.outcome # "started")
          => activeRuns # {}]_vars
\* a run whose adapter failed has ended and a later trigger has started the
\* next run
C29_Witness ==
  /\ pc[1] = "done"
  /\ results[1] # <<>>
  /\ results[1][1].errors # <<>>
  /\ started = 2
  /\ lastTrigger.outcome = "started"
====
